---- MODULE Spec2Model ----
\* Remote session manager of kernel-builder: SSHManager (connect with retry and
\* backoff, execute, disconnect) and SSHConnectionPool (keyed, bounded registry).
\* Source: src/kernel-builder/src/kvm/ssh.rs, src/kernel-builder/src/config/config.rs
EXTENDS Integers, Sequences, FiniteSets, TLC

\* ---------------------------------------------------------------- bounds
\* largest max_retries a configuration carries
MaxRetries == 3
\* largest Duration (in ticks) a configuration carries for a backoff
MaxDuration == 4
\* resolution of a Duration: ticks per millisecond (Duration is finer than 1 ms)
TicksPerMs == 2
\* largest capacity a pool is constructed with
MaxConnections == 2
\* longest command list handed to execute_batch
MaxBatch == 2
\* most operations a second task completes on its own manager
MaxPeerOps == 2

\* ---------------------------------------------------------------- values
None == "None"
Durations == 0..MaxDuration
Hosts == {"", "h"}
\* as many keys as the largest capacity: every pool of a smaller capacity can
\* be full and asked for an absent key
Keys == 1..MaxConnections
Commands == {"c1", "c2"}

\* Duration::as_millis: whole milliseconds, the sub-millisecond part dropped
as_millis(d) == d \div TicksPerMs
\* Duration::from_millis
from_millis(ms) == ms * TicksPerMs
\* std::cmp::min
min(a, b) == IF a <= b THEN a ELSE b

\* SSHConfig: the fields that decide control flow, and port and user, which
\* connection_info copies. key_path, timeout, compression,
\* strict_host_key_checking and keep_alive_interval only parameterise the
\* transport, whose outcome is nondeterministic here.
SSHConfig(host, max_retries, initial_backoff, max_backoff) ==
    [host |-> host, port |-> 22, user |-> "root", max_retries |-> max_retries,
     initial_backoff |-> initial_backoff, max_backoff |-> max_backoff]

\* a validation that only looks at the host
validate_host_only(config) ==
    IF config.host = "" THEN "HostEmpty" ELSE "Ok"

\* SSHConfig::validate: Ok iff host is not empty and max_retries is not 0
validate(config) ==
    IF config.host = "" THEN "HostEmpty"
    ELSE IF config.max_retries = 0 THEN "ZeroRetries"
    ELSE "Ok"

\* struct SSHManager { config, session, connected_at }; open counts the
\* sessions this manager established on which neither close() nor the
\* destructor has been run
SSHManager(config, session, connected_at) ==
    [config |-> config, session |-> session, connected_at |-> connected_at,
     open |-> 0]

\* SSHError variants the model distinguishes
SSHError ==
    {"ConnectionFailed", "IO", "TimeoutError", "ClientNotInitialized",
     "CommandExecutionFailed", "SessionFailed"}

\* Result of an operation: status Ok / Err / Panic, the SSHError variant,
\* which message of that variant, the attempt count the message carries, the
\* underlying error it carries, the value of an Ok (key of the entry
\* handed back, 1 / 0 for the boolean of is_connected, or 0), and the outputs
\* an Ok carries (the stdout of execute, the list of execute_batch).
Ok(value) ==
    [status |-> "Ok", err |-> None, msg |-> None, attempts |-> 0,
     cause |-> None, value |-> value, out |-> <<>>]
Err(err, msg, attempts, cause) ==
    [status |-> "Err", err |-> err, msg |-> msg, attempts |-> attempts,
     cause |-> cause, value |-> 0, out |-> <<>>]
Panicked ==
    [status |-> "Panic", err |-> None, msg |-> None, attempts |-> 0,
     cause |-> None, value |-> 0, out |-> <<>>]
Hung ==
    [status |-> "Hung", err |-> None, msg |-> None, attempts |-> 0,
     cause |-> None, value |-> 0, out |-> <<>>]
NoResult ==
    [status |-> None, err |-> None, msg |-> None, attempts |-> 0,
     cause |-> None, value |-> 0, out |-> <<>>]
\* Ok(String) / Ok(Vec<String>)
OkOut(out) == [Ok(0) EXCEPT !.out = out]
\* the bool of is_connected
Bool(b) == Ok(IF b THEN 1 ELSE 0)

\* what the message of an error names: the placeholders of its format string
\* (ssh.rs:91-94, 156-158, 172-175, 228)
message_fields(res) ==
    CASE res.msg = "FailedAfterAttempts" -> {"attempts", "cause"}
      [] res.msg = "FailedToExecute" -> {"cause"}
      [] res.msg = "CommandFailed" -> {"status", "stderr"}
      [] res.msg = "FailedToClose" -> {"cause"}
      [] OTHER -> {}

\* events of the operation in progress (or last completed)
\* "attempt": a try_connect; "sleep": a backoff sleep, with the backoff it is
\* based on, the jitter added and the duration slept (ticks); "command": a
\* remote command issued; "disconnect": a call of disconnect on the manager
\* under key; "close": a close of that manager's session, and whether it
\* succeeded. An attempt carries its outcome (how); a command the command line
\* (what) and its outcome (how); "probe": the command of is_connected, with
\* its outcome (how).
Event(kind, key, base, jitter, dur, ok) ==
    [kind |-> kind, key |-> key, base |-> base, jitter |-> jitter, dur |-> dur,
     ok |-> ok, what |-> None, how |-> None]
AttemptEvent(outcome) ==
    [Event("attempt", 0, 0, 0, 0, outcome = "ok") EXCEPT !.how = outcome]
SleepEvent(base, jitter, dur) == Event("sleep", 0, base, jitter, dur, TRUE)
CommandEvent(cmd, outcome) ==
    [Event("command", 0, 0, 0, 0, outcome \in {"zero", "zero_stderr"})
        EXCEPT !.what = cmd, !.how = outcome]
ProbeEvent(outcome) ==
    [Event("probe", 0, 0, 0, 0, outcome = "zero") EXCEPT !.how = outcome]
DisconnectEvent(key) == Event("disconnect", key, 0, 0, 0, TRUE)
CloseEvent(key, ok) == Event("close", key, 0, 0, 0, ok)
HangEvent(key) == [Event("close", key, 0, 0, 0, FALSE) EXCEPT !.how = "hang"]

\* the operation in progress: its name, the manager it acts on ("owned": the
\* caller's own SSHManager; "entry": the pool entry under key; "local": the
\* manager get_or_create_connection is constructing), its key argument, whether
\* its config argument is valid, the pool as it was when the operation began,
\* and (args) the command list of execute_batch, the config of validate or
\* the manager as it was when connect was called
Call(op, self, key, valid, pre) ==
    [op |-> op, self |-> self, key |-> key, valid |-> valid, pre |-> pre,
     args |-> <<>>]
NoCall == Call(None, None, 0, FALSE, <<>>)

VARIABLES
    default_ssh,      \* Config::default().ssh: the backoff settings in force
    max_connections,  \* SSHConnectionPool.max_connections
    connections,      \* SSHConnectionPool.connections: key -> SSHManager
    manager,          \* get_or_create_connection's local manager, or None
    owned,            \* an SSHManager the caller holds directly, or None
    pc,               \* where the operation in progress stands
    call,             \* the operation in progress / last completed
    attempt,          \* connect: loop variable
    backoff,          \* connect: local backoff
    drain,            \* close_all: entries drained and not yet visited
    results,          \* execute_batch: local results
    peer,             \* a second task, with a manager of its own
    trace,            \* events of the operation in progress / last completed
    result            \* result of the last completed operation

vars == <<default_ssh, max_connections, connections, manager, owned, pc, call,
          attempt, backoff, drain, results, peer, trace, result>>
poolVars == <<max_connections, connections, manager, drain>>
loopVars == <<attempt, backoff>>

\* Option<SSHManager>: absent, or the one manager held
NoManager == <<>>
SomeManager(m) == <<m>>

EmptyMap == <<>>
len(map) == Cardinality(DOMAIN map)
contains_key(map, key) == key \in DOMAIN map
insert(map, key, value) ==
    [k \in (DOMAIN map) \cup {key} |-> IF k = key THEN value ELSE map[k]]
\* a removal that leaves the entry in the map
remove_kept(map, key) == map
remove(map, key) == [k \in (DOMAIN map) \ {key} |-> map[k]]

\* the manager an operation acts on
Self ==
    CASE call.self = "owned" -> owned[1]
      [] call.self = "entry" -> connections[call.key]
      [] call.self = "local" -> manager[1]

\* ---------------------------------------------------------------- Init

\* the state after construction: no operation has run; the backoff settings
\* and the pool's capacity are inputs
Init ==
    /\ default_ssh \in [initial_backoff : Durations, max_backoff : Durations]
    /\ max_connections = 0
    /\ connections = EmptyMap
    /\ manager = NoManager
    /\ owned = NoManager
    /\ pc = "idle"
    /\ call = NoCall
    /\ attempt = 0
    /\ backoff = 0
    /\ drain = EmptyMap
    /\ results = <<>>
    /\ peer = [pc |-> "idle", done |-> 0]
    /\ trace = <<>>
    /\ result = NoResult

\* the backoff settings the pool is exercised with: zero and the largest, in
\* every combination (a zero backoff, initial above max, initial equal to max);
\* the arithmetic of the backoff is exercised over all Durations under Spec
PoolDurations == {0, MaxDuration}

\* SSHConnectionPool::new(max_connections): an empty pool of any capacity
PoolInit ==
    /\ default_ssh \in [initial_backoff : PoolDurations, max_backoff : PoolDurations]
    /\ max_connections \in 0..MaxConnections
    /\ connections = EmptyMap
    /\ manager = NoManager
    /\ owned = NoManager
    /\ pc = "idle"
    /\ call = NoCall
    /\ attempt = 0
    /\ backoff = 0
    /\ drain = EmptyMap
    /\ results = <<>>
    /\ peer = [pc |-> "idle", done |-> 0]
    /\ trace = <<>>
    /\ result = NoResult

\* the configurations a caller can hand in: any host, any max_retries, the
\* backoff settings in force
Configs ==
    {SSHConfig(h, n, default_ssh.initial_backoff, default_ssh.max_backoff) :
        h \in Hosts, n \in 0..MaxRetries}

\* the configurations the pool is exercised with: max_retries 0 (invalid),
\* 1 (no retry) and 2 (one sleep and a retry)
PoolConfigs == {c \in Configs : c.max_retries \in {0, 1, 2}}

\* the configurations validate is applied to: the fields it reads and the
\* fields it leaves unchecked (port 0, zero timeout, any two backoffs)
FullConfigs ==
    {[host |-> h, port |-> p, timeout |-> t, max_retries |-> n,
      initial_backoff |-> b, max_backoff |-> x] :
        h \in Hosts, p \in {0, 22}, t \in {0, MaxDuration}, n \in 0..MaxRetries,
        b \in PoolDurations, x \in PoolDurations}

\* SSHConfig::validate called on a configuration
validate_call(config) ==
    /\ pc = "idle"
    /\ call' = [Call("validate", "config", 0, validate(config) = "Ok", connections)
                  EXCEPT !.args = <<config>>]
    /\ trace' = <<>>
    /\ result' = IF validate(config) = "Ok" THEN Ok(0)
                 ELSE Err("ConnectionFailed", validate(config), 0, None)
    /\ UNCHANGED <<default_ssh, peer, results, poolVars, owned, pc, loopVars>>

\* ---------------------------------------------------------------- SSHManager
\* SSHManager::new: validate, then an unconnected manager
new_manager(config) == SSHManager(config, None, None)

new(config) ==
    /\ pc = "idle"
    /\ call' = Call("new", "owned", 0, validate(config) = "Ok", connections)
    /\ trace' = <<>>
    /\ IF validate(config) = "Ok"
       THEN /\ owned' = SomeManager(new_manager(config))
            /\ result' = Ok(0)
       ELSE /\ owned' = owned
            /\ result' = Err("ConnectionFailed", validate(config), 0, None)
    /\ UNCHANGED <<default_ssh, peer, results, poolVars, pc, loopVars>>

\* outcomes of one try_connect: the key file cannot be canonicalized (io),
\* the connect times out, the connect is refused, or a session is established
AttemptOutcomes == {"io", "timeout", "refused", "ok"}

\* SSHManager::try_connect: the error it returns, or None with the session set
try_connect_error(outcome) ==
    CASE outcome = "io" -> "IO"
      [] outcome = "timeout" -> "TimeoutError"
      [] outcome = "refused" -> "ConnectionFailed"
      [] outcome = "ok" -> None

\* a failed attempt that throws away the session held before
try_connect_resets(m, outcome) ==
    IF outcome = "ok"
    THEN [m EXCEPT !.session = "Some",
                   !.open = (m.open - (IF m.session # None THEN 1 ELSE 0)) + 1]
    ELSE [m EXCEPT !.session = None, !.open = 0]

\* an assignment that forgets the session held before without dropping it
dropped_never(m) == 0

\* try_connect, line 138: the assignment drops the session held before
dropped(m) == IF m.session # None THEN 1 ELSE 0

try_connect(m, outcome) ==
    IF outcome = "ok"
    THEN [m EXCEPT !.session = "Some", !.open = (m.open - dropped(m)) + 1]
    ELSE m

\* a successful attempt that records no timestamp
set_connected_at_never(m) == m

\* connect, line 71: the time of the successful attempt is recorded
set_connected_at(m) == [m EXCEPT !.connected_at = "Some"]

\* an error that reports the index of the last attempt for their number
failed_after_index(n, e) ==
    Err("ConnectionFailed", "FailedAfterAttempts", n - 1, e)

\* connect, lines 91-94: the error once the last attempt failed with e
failed_after(n, e) == Err("ConnectionFailed", "FailedAfterAttempts", n, e)

\* connect, line 77: sleep and retry unless this was the last attempt
retry(att, max_retries) == att < max_retries - 1

\* a jitter drawn from the inclusive range 0..=ms
jitter_range_inclusive(b) == 0..as_millis(b)

\* connect, line 78: the range the jitter is drawn from (milliseconds);
\* random_range panics on an empty range
jitter_range(b) == 0..(as_millis(b) - 1)

\* connect, line 79
sleep_duration(b, jitter) == b + from_millis(jitter)

\* connect, line 89
next_backoff(b, max_backoff) == min(b * 2, max_backoff)

\* an insert that does not wait for the connect to succeed
inserted_always(map, key, m, res) == insert(map, key, m)

\* get_or_create_connection, lines 349-350: the map after the connect of the
\* new manager returned res; the insert is reached only past the `?`
inserted(map, key, m, res) ==
    IF res.status = "Ok" THEN insert(map, key, m) ELSE map

\* how an operation on a manager ends: the manager is written back where it
\* lives. For get_or_create_connection (self = "local") the connected manager
\* is inserted under the key (line 350) and the entry handed back (line 353);
\* on an error the `?` of line 349 returns it and the local manager is dropped.
finish(m, res) ==
    /\ pc' = "idle"
    /\ CASE call.self = "owned" ->
              /\ owned' = SomeManager(m)
              /\ result' = res
              /\ UNCHANGED <<connections, manager>>
         [] call.self = "entry" ->
              /\ connections' = [connections EXCEPT ![call.key] = m]
              /\ result' = res
              /\ UNCHANGED <<owned, manager>>
         [] call.self = "local" ->
              /\ manager' = NoManager
              /\ connections' = inserted(connections, call.key, m, res)
              /\ result' = IF res.status = "Ok" THEN Ok(call.key) ELSE res
              /\ UNCHANGED owned

\* a panic unwinds through the caller: the operation never returns
panic ==
    /\ pc' = "panicked"
    /\ result' = Panicked
    /\ manager' = NoManager
    /\ UNCHANGED <<connections, owned>>

\* a connect that takes up the loop where the last connect left it
begin_connect_resumed(m) ==
    /\ pc' = "connect"
    /\ UNCHANGED <<attempt, backoff>>

\* connect, lines 61-62: the loop is entered with the initial backoff
begin_connect(m) ==
    /\ pc' = "connect"
    /\ attempt' = 0
    /\ backoff' = m.config.initial_backoff

\* SSHManager::connect called by the owner of the manager
connect(self, key) ==
    /\ pc = "idle"
    /\ \/ self = "owned" /\ key = 0 /\ owned # NoManager
       \/ self = "entry" /\ contains_key(connections, key)
    /\ call' = [Call("connect", self, key, FALSE, connections)
                  EXCEPT !.args = <<IF self = "owned" THEN owned[1]
                                     ELSE connections[key]>>]
    /\ trace' = <<>>
    /\ begin_connect(IF self = "owned" THEN owned[1] ELSE connections[key])
    /\ UNCHANGED <<default_ssh, peer, results, poolVars, owned, result>>

\* connect, lines 64-102: one iteration of the loop, up to the sleep
connect_iteration ==
    /\ pc = "connect"
    /\ LET m == Self
           n == m.config.max_retries
       IN IF ~(attempt < n)
          THEN \* line 100
               /\ finish(m, Err("ConnectionFailed", "MaxRetriesReached", 0, None))
               /\ UNCHANGED <<trace, loopVars>>
          ELSE \E outcome \in AttemptOutcomes :
               LET e == try_connect_error(outcome)
                   m2 == try_connect(m, outcome)
               IN IF e = None
                  THEN \* lines 66-73
                       /\ finish(set_connected_at(m2), Ok(0))
                       /\ trace' = Append(trace, AttemptEvent(outcome))
                       /\ UNCHANGED loopVars
                  ELSE IF retry(attempt, n)
                  THEN IF jitter_range(backoff) = {}
                       THEN /\ panic
                            /\ trace' = Append(trace, AttemptEvent(outcome))
                            /\ UNCHANGED loopVars
                       ELSE \E jitter \in jitter_range(backoff) :
                            /\ pc' = "sleep"
                            /\ trace' = trace \o
                                 <<AttemptEvent(outcome),
                                   SleepEvent(backoff, from_millis(jitter),
                                              sleep_duration(backoff, jitter))>>
                            /\ UNCHANGED <<connections, manager, owned, result,
                                           loopVars>>
                  ELSE \* lines 91-94
                       /\ finish(m2, failed_after(n, e))
                       /\ trace' = Append(trace, AttemptEvent(outcome))
                       /\ UNCHANGED loopVars
    /\ UNCHANGED <<default_ssh, peer, results, max_connections, drain, call>>

\* connect, lines 87-89: the sleep ends, the backoff doubles up to the cap and
\* the loop goes to the next attempt
sleep_done ==
    /\ pc = "sleep"
    /\ backoff' = next_backoff(backoff, Self.config.max_backoff)
    /\ attempt' = attempt + 1
    /\ pc' = "connect"
    /\ UNCHANGED <<default_ssh, peer, results, poolVars, owned, call, trace, result>>

\* outcomes of the remote command of execute: the timeout elapses, the
\* transport fails, or the command exits (status 0 or not, stderr empty or not)
CommandOutcomes == {"timeout", "transport", "nonzero", "zero", "zero_stderr"}

\* execute, line 178: the captured standard output of the command
stdout(cmd) == <<"stdout", cmd>>

\* an execute that takes output on stderr for a failure
execute_result_stderr_fails(cmd, outcome) ==
    CASE outcome = "timeout" -> Err("TimeoutError", "CommandTimedOut", 0, None)
      [] outcome = "transport" ->
            Err("CommandExecutionFailed", "FailedToExecute", 0, "transport")
      [] outcome \in {"nonzero", "zero_stderr"} ->
            Err("CommandExecutionFailed", "CommandFailed", 0, "status")
      [] outcome = "zero" -> OkOut(<<stdout(cmd)>>)

\* SSHManager::execute, lines 151-178: the result once a command was issued
execute_result(cmd, outcome) ==
    CASE outcome = "timeout" -> Err("TimeoutError", "CommandTimedOut", 0, None)
      [] outcome = "transport" ->
            Err("CommandExecutionFailed", "FailedToExecute", 0, "transport")
      [] outcome = "nonzero" ->
            Err("CommandExecutionFailed", "CommandFailed", 0, "status")
      [] outcome \in {"zero", "zero_stderr"} -> OkOut(<<stdout(cmd)>>)

\* an execute that never looks whether a session is held
has_session_always(m) == TRUE

\* a liveness test on the timestamp instead of the session
has_session_by_timestamp(m) == m.connected_at # None

\* execute, lines 144-147: a command can be issued only on a held session
has_session(m) == m.session # None

\* what the remote side can answer to a command of the manager: nothing is
\* asked of it when no session is held
outcomes_of(m) == IF has_session(m) THEN CommandOutcomes ELSE {None}

\* an execute that gives up the session of a command that timed out
execute_of_drops_on_timeout(m, cmd, outcome) ==
    IF m.session = None
    THEN [m |-> m, res |-> Err("ClientNotInitialized", None, 0, None),
          events |-> <<>>]
    ELSE [m |-> IF outcome = "timeout"
                THEN [m EXCEPT !.session = None, !.open = m.open - 1] ELSE m,
          res |-> execute_result(cmd, outcome),
          events |-> <<CommandEvent(cmd, outcome)>>]

\* SSHManager::execute, lines 143-179, as a function of the outcome of the
\* remote command: the manager afterwards (&self: as it was), the result and
\* the command issued, if any
execute_of(m, cmd, outcome) ==
    IF ~has_session(m)
    THEN [m |-> m, res |-> Err("ClientNotInitialized", None, 0, None),
          events |-> <<>>]
    ELSE [m |-> m, res |-> execute_result(cmd, outcome),
          events |-> <<CommandEvent(cmd, outcome)>>]

\* SSHManager::execute called by the owner of the manager
execute(self, key, cmd) ==
    /\ pc = "idle"
    /\ \/ self = "owned" /\ key = 0 /\ owned # NoManager
       \/ self = "entry" /\ contains_key(connections, key)
    /\ call' = Call("execute", self, key, FALSE, connections)
    /\ LET m == IF self = "owned" THEN owned[1] ELSE connections[key]
       IN \E outcome \in outcomes_of(m) :
            /\ trace' = execute_of(m, cmd, outcome).events
            /\ result' = execute_of(m, cmd, outcome).res
            /\ IF self = "owned"
               THEN /\ owned' = SomeManager(execute_of(m, cmd, outcome).m)
                    /\ UNCHANGED connections
               ELSE /\ connections' =
                         [connections EXCEPT ![key] = execute_of(m, cmd, outcome).m]
                    /\ UNCHANGED owned
    /\ UNCHANGED <<default_ssh, peer, results, max_connections, manager, drain, pc,
                   loopVars>>

\* the command lists execute_batch is called with
Batches ==
    UNION {[1..k -> Commands] : k \in 0..MaxBatch}

\* a batch that goes on to the next command after a failure
stops_never(res) == FALSE

\* execute_batch, line 191: the `?` returns the first error of execute
stops(res) == res.status # "Ok"

\* SSHManager::execute_batch, lines 182-184: the loop is entered with an empty
\* list of results
execute_batch(self, key, commands) ==
    /\ pc = "idle"
    /\ \/ self = "owned" /\ key = 0 /\ owned # NoManager
       \/ self = "entry" /\ contains_key(connections, key)
    /\ call' = [Call("execute_batch", self, key, FALSE, connections)
                  EXCEPT !.args = commands]
    /\ trace' = <<>>
    /\ results' = <<>>
    /\ pc' = "execute_batch"
    /\ UNCHANGED <<default_ssh, peer, poolVars, owned, loopVars, result>>

\* execute_batch, lines 184-195: one iteration of the loop, or its end. The
\* index of the loop is the number of results pushed so far.
execute_batch_iteration ==
    /\ pc = "execute_batch"
    /\ LET i == Len(results)
       IN IF i >= Len(call.args)
          THEN \* line 195
               /\ result' = OkOut(results)
               /\ results' = <<>>
               /\ pc' = "idle"
               /\ UNCHANGED <<trace, connections, owned>>
          ELSE \E outcome \in outcomes_of(Self) :
               LET x == execute_of(Self, call.args[i + 1], outcome)
               IN /\ trace' = trace \o x.events
                  /\ IF call.self = "owned"
                     THEN /\ owned' = SomeManager(x.m)
                          /\ UNCHANGED connections
                     ELSE /\ connections' = [connections EXCEPT ![call.key] = x.m]
                          /\ UNCHANGED owned
                  /\ IF stops(x.res)
                     THEN /\ result' = x.res
                          /\ results' = <<>>
                          /\ pc' = "idle"
                     ELSE /\ results' = results \o x.res.out
                          /\ UNCHANGED <<result, pc>>
    /\ UNCHANGED <<default_ssh, peer, max_connections, manager, drain, call, loopVars>>

\* outcomes of the probe of is_connected: the five seconds elapse, the
\* transport fails, or the probe exits (status 0 or not)
ProbeOutcomes == {"timeout", "transport", "nonzero", "zero"}

\* a liveness test that trusts the held session without probing it
is_connected_of_unprobed(m, outcome) ==
    [res |-> Bool(m.session # None), events |-> <<>>]

\* SSHManager::is_connected, lines 198-212, as a function of the outcome of
\* the probe: the answer and the probe issued, if any
is_connected_of(m, outcome) ==
    IF m.session # None
    THEN [res |-> Bool(outcome = "zero"), events |-> <<ProbeEvent(outcome)>>]
    ELSE [res |-> Bool(FALSE), events |-> <<>>]

\* SSHManager::is_connected called by the owner of the manager
is_connected(self, key) ==
    /\ pc = "idle"
    /\ \/ self = "owned" /\ key = 0 /\ owned # NoManager
       \/ self = "entry" /\ contains_key(connections, key)
    /\ call' = Call("is_connected", self, key, FALSE, connections)
    /\ LET m == IF self = "owned" THEN owned[1] ELSE connections[key]
       IN \E outcome \in (IF m.session # None THEN ProbeOutcomes ELSE {None}) :
            /\ trace' = is_connected_of(m, outcome).events
            /\ result' = is_connected_of(m, outcome).res
    /\ UNCHANGED <<default_ssh, peer, results, poolVars, owned, pc, loopVars>>

\* a disconnect that keeps the session when its close fails
disconnect_of_keeps_on_error(m, close_ok) ==
    IF m.session # None
    THEN IF close_ok
         THEN [m |-> [m EXCEPT !.session = None, !.connected_at = None,
                                !.open = m.open - 1],
               res |-> Ok(0), closed |-> TRUE, ok |-> TRUE]
         ELSE [m |-> m,
               res |-> Err("SessionFailed", "FailedToClose", 0, None),
               closed |-> TRUE, ok |-> FALSE]
    ELSE [m |-> [m EXCEPT !.connected_at = None], res |-> Ok(0),
          closed |-> FALSE, ok |-> TRUE]

\* a disconnect that clears the timestamp and keeps the session when its
\* close fails
disconnect_of_clears_timestamp_only(m, close_ok) ==
    IF m.session # None
    THEN IF close_ok
         THEN [m |-> [m EXCEPT !.session = None, !.connected_at = None,
                                !.open = m.open - 1],
               res |-> Ok(0), closed |-> TRUE, ok |-> TRUE]
         ELSE [m |-> [m EXCEPT !.connected_at = None],
               res |-> Err("SessionFailed", "FailedToClose", 0, None),
               closed |-> TRUE, ok |-> FALSE]
    ELSE [m |-> [m EXCEPT !.connected_at = None], res |-> Ok(0),
          closed |-> FALSE, ok |-> TRUE]

\* a disconnect that refuses a manager without a session
disconnect_of_strict(m, close_ok) ==
    IF m.session # None
    THEN IF close_ok
         THEN [m |-> [m EXCEPT !.session = None, !.connected_at = None,
                                !.open = m.open - 1],
               res |-> Ok(0), closed |-> TRUE, ok |-> TRUE]
         ELSE [m |-> [m EXCEPT !.session = None, !.open = m.open - 1],
               res |-> Err("SessionFailed", "FailedToClose", 0, None),
               closed |-> TRUE, ok |-> FALSE]
    ELSE [m |-> m, res |-> Err("ClientNotInitialized", None, 0, None),
          closed |-> FALSE, ok |-> FALSE]

\* a snapshot that is taken whenever a timestamp is there
connection_info_of_by_timestamp(m) ==
    IF m.connected_at # None
    THEN <<[host |-> m.config.host, port |-> m.config.port,
            user |-> m.config.user, connected_at |-> m.connected_at]>>
    ELSE <<>>

\* SSHManager::connection_info, lines 214-221: Some(ConnectionInfo) or None
connection_info_of(m) ==
    IF m.session # None
    THEN <<[host |-> m.config.host, port |-> m.config.port,
            user |-> m.config.user,
            connected_at |-> IF m.connected_at # None THEN m.connected_at
                             ELSE "now"]>>
    ELSE <<>>

\* SSHManager::connection_info called by the owner of the manager
connection_info(self, key) ==
    /\ pc = "idle"
    /\ \/ self = "owned" /\ key = 0 /\ owned # NoManager
       \/ self = "entry" /\ contains_key(connections, key)
    /\ call' = Call("connection_info", self, key, FALSE, connections)
    /\ trace' = <<>>
    /\ result' = OkOut(connection_info_of(IF self = "owned" THEN owned[1]
                                          ELSE connections[key]))
    /\ UNCHANGED <<default_ssh, peer, results, poolVars, owned, pc, loopVars>>

\* SSHManager::disconnect, lines 223-231, as a function of whether the close
\* succeeds: the manager afterwards, the result, and whether a close was
\* attempted. A failed close returns at line 228, before line 230.
disconnect_of(m, close_ok) ==
    IF m.session # None
    THEN IF close_ok
         THEN [m |-> [m EXCEPT !.session = None, !.connected_at = None,
                                !.open = m.open - 1],
               res |-> Ok(0), closed |-> TRUE, ok |-> TRUE]
         ELSE [m |-> [m EXCEPT !.session = None, !.open = m.open - 1],
               res |-> Err("SessionFailed", "FailedToClose", 0, None),
               closed |-> TRUE, ok |-> FALSE]
    ELSE [m |-> [m EXCEPT !.connected_at = None], res |-> Ok(0),
          closed |-> FALSE, ok |-> TRUE]

\* what session.close().await of line 225 can do: succeed, fail, or get no
\* answer; no timeout is put around it
CloseOutcomes == {"ok", "failed", "hang"}

\* disconnect, lines 224-225: the close of a held session never returns. The
\* session was taken out of the manager before.
hangs(m, close) == m.session # None /\ close = "hang"
hung(m) == [m EXCEPT !.session = None, !.open = m.open - 1]

\* an operation that waits forever never returns to its caller
hang ==
    /\ pc' = "hung"
    /\ result' = Hung

\* the events of one disconnect call on the manager under key
disconnect_events(key, d) ==
    IF d.closed THEN <<DisconnectEvent(key), CloseEvent(key, d.ok)>>
    ELSE <<DisconnectEvent(key)>>

\* SSHManager::disconnect called by the owner of the manager
disconnect(self, key) ==
    /\ pc = "idle"
    /\ \/ self = "owned" /\ key = 0 /\ owned # NoManager
       \/ self = "entry" /\ contains_key(connections, key)
    /\ call' = Call("disconnect", self, key, FALSE, connections)
    /\ \E close \in CloseOutcomes :
         LET m == IF self = "owned" THEN owned[1] ELSE connections[key]
             d == disconnect_of(m, close = "ok")
             after == IF hangs(m, close) THEN hung(m) ELSE d.m
         IN /\ IF hangs(m, close)
               THEN /\ trace' = <<DisconnectEvent(key), HangEvent(key)>>
                    /\ hang
               ELSE /\ trace' = disconnect_events(key, d)
                    /\ result' = d.res
                    /\ UNCHANGED pc
            /\ IF self = "owned"
               THEN owned' = SomeManager(after) /\ UNCHANGED connections
               ELSE connections' = [connections EXCEPT ![key] = after]
                    /\ UNCHANGED owned
    /\ UNCHANGED <<default_ssh, peer, results, max_connections, manager, drain, loopVars>>

\* ---------------------------------------------------------------- SSHConnectionPool
\* a capacity test that admits one entry too many
at_capacity_over(map, max) == Cardinality(DOMAIN map) > max

\* a capacity test that refuses one entry too early
at_capacity_early(map, max) == Cardinality(DOMAIN map) + 1 >= max

\* get_or_create_connection, line 342
at_capacity(map, max) == len(map) >= max

\* a manager created whether or not the map holds the key
must_create_always(map, key) == TRUE

\* get_or_create_connection, line 341: a manager is created only for a key
\* the map does not hold
must_create(map, key) == ~contains_key(map, key)

\* SSHConnectionPool::get_or_create_connection, lines 341-353, up to the
\* connect of line 349, which connect_iteration and sleep_done carry out
get_or_create_connection(key, config) ==
    /\ pc = "idle"
    /\ trace' = <<>>
    /\ IF must_create(connections, key)
       THEN IF at_capacity(connections, max_connections)
            THEN /\ call' = Call("get_or_create_connection", "pool", key,
                                 validate(config) = "Ok", connections)
                 /\ result' = Err("ConnectionFailed", "MaxConnectionsReached", 0, None)
                 /\ UNCHANGED <<manager, pc, loopVars>>
            ELSE IF validate(config) # "Ok"
            THEN /\ call' = Call("get_or_create_connection", "pool", key,
                                 validate(config) = "Ok", connections)
                 /\ result' = Err("ConnectionFailed", validate(config), 0, None)
                 /\ UNCHANGED <<manager, pc, loopVars>>
            ELSE /\ call' = Call("get_or_create_connection", "local", key,
                                 validate(config) = "Ok", connections)
                 /\ manager' = SomeManager(new_manager(config))
                 /\ begin_connect(new_manager(config))
                 /\ UNCHANGED result
       ELSE /\ call' = Call("get_or_create_connection", "pool", key,
                                 validate(config) = "Ok", connections)
            /\ result' = Ok(key)
            /\ UNCHANGED <<manager, pc, loopVars>>
    /\ UNCHANGED <<default_ssh, peer, results, max_connections, connections, drain, owned>>

\* a removal that is undone when the disconnect fails
after_remove_unless_failed(map, key, res) ==
    IF res.status = "Err" THEN map ELSE [k \in (DOMAIN map) \ {key} |-> map[k]]

\* remove_connection, lines 357-359: the entry is taken out of the map before
\* its disconnect, whose result res does not bring it back
after_remove(map, key, res) == remove(map, key)

\* SSHConnectionPool::remove_connection
remove_connection(key) ==
    /\ pc = "idle"
    /\ call' = Call("remove_connection", "pool", key, FALSE, connections)
    /\ IF contains_key(connections, key)
       THEN \E close \in CloseOutcomes :
            LET d == disconnect_of(connections[key], close = "ok")
            IN /\ connections' = after_remove(connections, key, d.res)
               /\ IF hangs(connections[key], close)
                  THEN /\ trace' = <<DisconnectEvent(key), HangEvent(key)>>
                       /\ hang
                  ELSE /\ trace' = disconnect_events(key, d)
                       /\ result' = d.res
                       /\ UNCHANGED pc
       ELSE /\ trace' = <<>>
            /\ result' = Ok(0)
            /\ UNCHANGED <<connections, pc>>
    /\ UNCHANGED <<default_ssh, peer, results, max_connections, manager, drain, owned, loopVars>>

\* a loop over the entries that leaves them in the map
drained_kept(map) == map

\* close_all, line 364: what drain() leaves in the map
drained(map) == EmptyMap

\* SSHConnectionPool::close_all, line 364: drain() empties the map and yields
\* its entries in the map's (arbitrary) iteration order
close_all ==
    /\ pc = "idle"
    /\ call' = Call("close_all", "pool", 0, FALSE, connections)
    /\ trace' = <<>>
    /\ drain' = connections
    /\ connections' = drained(connections)
    /\ pc' = "close_all"
    /\ UNCHANGED <<default_ssh, peer, results, max_connections, manager, owned, loopVars, result>>

\* a loop that returns at the first disconnect error
rest_after_stop_on_error(d, key, res) ==
    IF res.status = "Err" THEN <<>> ELSE [k \in (DOMAIN d) \ {key} |-> d[k]]

\* close_all, lines 364-368: the entries still to visit after the disconnect
\* of the entry under key returned res (an error is logged, the loop goes on)
rest_after(d, key, res) == remove(d, key)

\* close_all, lines 364-369: one iteration of the loop (an error of disconnect
\* is logged and the loop goes on), or the return once the drain is exhausted
close_all_iteration ==
    /\ pc = "close_all"
    /\ IF drain = EmptyMap
       THEN /\ pc' = "idle"
            /\ result' = Ok(0)
            /\ UNCHANGED <<drain, trace>>
       ELSE \E key \in DOMAIN drain : \E close \in CloseOutcomes :
            LET d == disconnect_of(drain[key], close = "ok")
            IN /\ drain' = rest_after(drain, key, d.res)
               /\ IF hangs(drain[key], close)
                  THEN /\ trace' = trace \o <<DisconnectEvent(key), HangEvent(key)>>
                       /\ hang
                  ELSE /\ trace' = trace \o disconnect_events(key, d)
                       /\ UNCHANGED <<pc, result>>
    /\ UNCHANGED <<default_ssh, peer, results, max_connections, connections, manager, owned, call,
                   loopVars>>

\* ---------------------------------------------------------------- tasks
\* a sleep that keeps the worker thread for its whole duration
blocks_while_sleeping(p) == p = "sleep"

\* connect, line 87: sleep(sleep_duration).await parks the task that called
\* connect and gives the worker thread back; between two steps of that task
\* the thread is free for the other tasks
blocks(p) == FALSE

\* a second task calls execute on its own connected manager (lines 151-155:
\* the command is awaited)
peer_execute ==
    /\ ~blocks(pc)
    /\ peer.pc = "idle"
    /\ peer.done < MaxPeerOps
    /\ peer' = [peer EXCEPT !.pc = "execute"]
    /\ UNCHANGED <<default_ssh, results, poolVars, owned, pc, call, loopVars,
                   trace, result>>

\* the execute of the second task returns
peer_return ==
    /\ ~blocks(pc)
    /\ peer.pc = "execute"
    /\ peer' = [peer EXCEPT !.pc = "idle", !.done = peer.done + 1]
    /\ UNCHANGED <<default_ssh, results, poolVars, owned, pc, call, loopVars,
                   trace, result>>

\* ---------------------------------------------------------------- specifications
\* one SSHManager held by its owner
Next ==
    \/ \E config \in Configs : new(config)
    \/ connect("owned", 0)
    \/ connect_iteration
    \/ sleep_done
    \/ \E cmd \in Commands : execute("owned", 0, cmd)
    \/ \E commands \in Batches : execute_batch("owned", 0, commands)
    \/ execute_batch_iteration
    \/ is_connected("owned", 0)
    \/ connection_info("owned", 0)
    \/ disconnect("owned", 0)

Spec == Init /\ [][Next]_vars

\* SSHConfig::validate applied to every configuration
ValidateNext == \E config \in FullConfigs : validate_call(config)

ValidateSpec == Init /\ [][ValidateNext]_vars

\* two tasks: one connects its manager, the other executes on its own
TasksNext ==
    \/ \E config \in Configs : new(config)
    \/ connect("owned", 0)
    \/ connect_iteration
    \/ sleep_done
    \/ peer_execute
    \/ peer_return

TasksSpec == Init /\ [][TasksNext]_vars

\* one SSHConnectionPool held by its owner, who also operates the entries
\* handed back to it
PoolNext ==
    \/ \E key \in Keys, config \in PoolConfigs : get_or_create_connection(key, config)
    \/ \E key \in Keys : remove_connection(key)
    \/ close_all
    \/ close_all_iteration
    \/ connect_iteration
    \/ sleep_done
    \/ \E key \in Keys : connect("entry", key)
    \/ \E key \in Keys, cmd \in Commands : execute("entry", key, cmd)
    \/ \E key \in Keys : disconnect("entry", key)

PoolSpec == PoolInit /\ [][PoolNext]_vars

\* ---------------------------------------------------------------- properties
\* number of events of a kind in the trace
Count(kind) == Cardinality({j \in 1..Len(trace) : trace[j].kind = kind})
\* number of disconnect calls on the manager under key in the trace
Disconnects(key) ==
    Cardinality({j \in 1..Len(trace) :
                    trace[j].kind = "disconnect" /\ trace[j].key = key})
RECURSIVE Pow2(_)
Pow2(k) == IF k = 0 THEN 1 ELSE 2 * Pow2(k - 1)
Smaller(a, b) == IF a <= b THEN a ELSE b

\* a connect() called on the caller's manager has ended (returned or panicked)
ConnectEnded == pc \in {"idle", "panicked"} /\ call.op = "connect"

\* C1: for every validated configuration with max_retries = n, a connect() in
\* which every attempt fails performs exactly n attempts and then returns
\* ConnectionFailed.
C1_AllFailedPerformsNAttempts ==
    (ConnectEnded /\ result.status # "Ok") =>
        /\ Count("attempt") = owned[1].config.max_retries
        /\ result.status = "Err"
        /\ result.err = "ConnectionFailed"

\* C2: the base of the sleep that follows failed attempt i is
\* min(b * 2^(i-1), m), for all initial_backoff b and max_backoff m. (In the
\* trace of a connect the i-th sleep is event 2i.)
C2_SleepBaseIsCappedExponential ==
    call.op = "connect" =>
        \A j \in 1..Len(trace) :
            trace[j].kind = "sleep" =>
                trace[j].base =
                    Smaller(owned[1].config.initial_backoff * Pow2((j \div 2) - 1),
                            owned[1].config.max_backoff)

\* C3: for every backoff sleep performed by connect(), the jitter added to the
\* sleep base is in [0, base), so the sleep lasts at least base and strictly
\* less than 2 * base.
C3_JitterWithinBase ==
    \A j \in 1..Len(trace) :
        trace[j].kind = "sleep" =>
            /\ 0 <= trace[j].jitter
            /\ trace[j].jitter < trace[j].base
            /\ trace[j].dur = trace[j].base + trace[j].jitter
            /\ trace[j].base <= trace[j].dur
            /\ trace[j].dur < 2 * trace[j].base
            /\ (pc = "sleep" /\ j = Len(trace)) => trace[j].base = backoff

\* a sleep with a jitter above zero was performed, after a first sleep
C3_Witness ==
    /\ pc = "sleep"
    /\ Count("sleep") = 2
    /\ trace[Len(trace)].jitter > 0

\* C4: connect() never sleeps after its final failed attempt: a connect whose
\* attempts all fail performs exactly max_retries - 1 sleeps, each strictly
\* between two consecutive attempts, and returns the error right after the
\* last attempt.
C4_SleepsOnlyBetweenAttempts ==
    /\ call.op = "connect" =>
         \A j \in 1..Len(trace) :
            trace[j].kind = "sleep" =>
                /\ j > 1 /\ trace[j - 1].kind = "attempt"
                /\ (j < Len(trace) => trace[j + 1].kind = "attempt")
                /\ (j = Len(trace) => pc \in {"sleep", "connect"})
    /\ (ConnectEnded /\ result.status # "Ok") =>
         /\ Count("sleep") = owned[1].config.max_retries - 1
         /\ trace[Len(trace)].kind = "attempt"
         /\ result.status = "Err"

\* get_or_create_connection was called (and, with pc = "idle", has returned)
GetOrCreate == call.op = "get_or_create_connection"
\* its key was absent from / present in the pool when it was called
KeyAbsent == call.key \notin DOMAIN call.pre
KeyPresent == call.key \in DOMAIN call.pre
\* the pool was full when the operation was called
WasFull == Cardinality(DOMAIN call.pre) >= max_connections

\* C5: after any sequence of get_or_create_connection, remove_connection and
\* close_all calls with arbitrary connect and disconnect outcomes, the number
\* of entries in the pool never exceeds max_connections.
C5_PoolWithinCapacity == Cardinality(DOMAIN connections) <= max_connections

\* a pool filled to its capacity of one has refused a second key
C5_Witness ==
    /\ pc = "idle"
    /\ GetOrCreate
    /\ Cardinality(DOMAIN connections) = max_connections
    /\ max_connections = 1
    /\ result.msg = "MaxConnectionsReached"

\* C6: on a full pool, get_or_create_connection for an absent key fails with
\* ConnectionFailed (maximum connections reached), performs no connection
\* attempt and leaves the entries unchanged; below capacity, a new key is
\* taken to connect and, when the connect succeeds, is inserted and handed
\* back.
C6_FullPoolRefusesNewKey ==
    (GetOrCreate /\ KeyAbsent) =>
        IF WasFull
        THEN /\ pc = "idle"
             /\ result = Err("ConnectionFailed", "MaxConnectionsReached", 0, None)
             /\ trace = <<>>
             /\ connections = call.pre
        ELSE /\ result.msg # "MaxConnectionsReached" \/ pc # "idle"
             /\ call.valid => call.self = "local"
             /\ (pc = "idle" /\ call.valid) => Count("attempt") >= 1
             /\ (pc = "idle" /\ result.status = "Ok") =>
                    /\ result.value = call.key
                    /\ DOMAIN connections = (DOMAIN call.pre) \cup {call.key}
                    /\ connections[call.key].session # None
                    /\ \A k \in DOMAIN call.pre : connections[k] = call.pre[k]

\* a pool of capacity two holding one entry took a second key, which connected
\* and was inserted
C6_Witness ==
    /\ pc = "idle"
    /\ GetOrCreate
    /\ KeyAbsent
    /\ max_connections = 2
    /\ Cardinality(DOMAIN call.pre) = 1
    /\ result.status = "Ok"
    /\ Cardinality(DOMAIN connections) = 2

\* C7: get_or_create_connection for a key already present returns the entry
\* stored under that key, ignores the supplied config (no validation, no
\* connect attempt), succeeds even when the pool is full, and changes nothing
\* in the pool.
C7_PresentKeyReturned ==
    (GetOrCreate /\ KeyPresent) =>
        /\ pc = "idle"
        /\ result = Ok(call.key)
        /\ trace = <<>>
        /\ connections = call.pre

\* a present key was handed back by a full pool although the supplied config
\* is invalid
C7_Witness ==
    /\ pc = "idle"
    /\ GetOrCreate
    /\ KeyPresent
    /\ WasFull
    /\ ~call.valid
    /\ result.status = "Ok"

\* C8: when get_or_create_connection is called for an absent key below
\* capacity and the connect of the new manager fails, no entry is inserted:
\* the pool is as it was before the call (so a later request meets the same
\* pool as if the failed request had never happened).
C8_FailedConnectNotInserted ==
    (GetOrCreate /\ call.self = "local" /\ pc \in {"idle", "panicked"}
       /\ result.status # "Ok") =>
        /\ connections = call.pre
        /\ manager = <<>>

\* the connect of a new manager failed after a retry, in a pool that already
\* held an entry
C8_Witness ==
    /\ pc = "idle"
    /\ GetOrCreate
    /\ call.self = "local"
    /\ result.status = "Err"
    /\ Count("attempt") = 2
    /\ Cardinality(DOMAIN call.pre) = 1

\* C9: close_all on a pool with N entries attempts to disconnect every one of
\* the N entries exactly once, whichever entries fail to disconnect and in
\* whatever order they are visited.
C9_CloseAllDisconnectsEach ==
    (pc = "idle" /\ call.op = "close_all") =>
        /\ \A k \in DOMAIN call.pre : Disconnects(k) = 1
        /\ Count("disconnect") = Cardinality(DOMAIN call.pre)

\* close_all went through two entries and the first one visited failed to
\* close
C9_Witness ==
    /\ pc = "idle"
    /\ call.op = "close_all"
    /\ Cardinality(DOMAIN call.pre) = 2
    /\ Len(trace) >= 2
    /\ trace[2].kind = "close"
    /\ ~trace[2].ok

\* C10: execute on a manager that holds no session fails with
\* ClientNotInitialized and issues no remote command.
C10_ExecuteWithoutSession ==
    (pc = "idle" /\ call.op = "execute" /\ owned[1].session = None) =>
        /\ result = Err("ClientNotInitialized", None, 0, None)
        /\ Count("command") = 0

\* execute was refused on a manager that was connected and disconnected since
\* (the close failed, so the timestamp is still there)
C10_Witness ==
    /\ pc = "idle"
    /\ call.op = "execute"
    /\ owned[1].session = None
    /\ owned[1].connected_at # None
    /\ result.err = "ClientNotInitialized"

\* C11: validate() returns an error exactly when the host is empty or
\* max_retries is 0; every other configuration passes, whatever its port, its
\* timeout and the order of its two backoffs.
C11_ValidateErrIffHostEmptyOrZeroRetries ==
    call.op = "validate" =>
        /\ result.status \in {"Ok", "Err"}
        /\ (result.status = "Err") <=>
              (call.args[1].host = "" \/ call.args[1].max_retries = 0)

\* a configuration with port 0, a zero timeout and an initial backoff above
\* the maximum backoff passed
C11_Witness ==
    /\ call.op = "validate"
    /\ result.status = "Ok"
    /\ call.args[1].port = 0
    /\ call.args[1].timeout = 0
    /\ call.args[1].initial_backoff > call.args[1].max_backoff

\* C12: an attempt that fails on the private key file (missing or unreadable)
\* is fatal: connect() performs no backoff sleep and no further attempt after
\* it.
C12_KeyFileErrorIsFatal ==
    call.op = "connect" =>
        \A j \in 1..Len(trace) :
            (trace[j].kind = "attempt" /\ trace[j].how = "io") => j = Len(trace)

\* C13: after disconnect() has returned, with success or with SessionFailed,
\* the manager holds no session; an execute that follows fails with
\* ClientNotInitialized and an is_connected that follows answers false.
C13_UnconnectedAfterDisconnect ==
    [][/\ (pc' = "idle" /\ call'.op = "disconnect") => owned'[1].session = None
       /\ (pc = "idle" /\ call.op = "disconnect" /\ call'.op = "execute") =>
             /\ result' = Err("ClientNotInitialized", None, 0, None)
             /\ trace' = <<>>
       /\ (pc = "idle" /\ call.op = "disconnect" /\ call'.op = "is_connected") =>
             /\ result' = Ok(0)
             /\ trace' = <<>>]_vars

\* is_connected answered false, without a probe, on a manager whose close had
\* failed (the timestamp is still there)
C13_Witness ==
    /\ pc = "idle"
    /\ call.op = "is_connected"
    /\ owned[1].session = None
    /\ owned[1].connected_at # None
    /\ trace = <<>>
    /\ result = Ok(0)

\* C14: after disconnect() has returned, with success or with SessionFailed,
\* the connected-since timestamp is cleared.
C14_TimestampClearedAfterDisconnect ==
    (pc = "idle" /\ call.op = "disconnect") => owned[1].connected_at = None

\* C15: disconnect() on a manager without a session attempts no close, returns
\* success and leaves the manager without a session; a close is attempted only
\* on a held session, which is gone afterwards (one close per session at most).
C15_DisconnectIdempotent ==
    [][(pc = "idle" /\ call'.op = "disconnect") =>
          /\ owned[1].session = None =>
                /\ result' = Ok(0)
                /\ trace' = <<DisconnectEvent(0)>>
                /\ owned'[1].session = None
          /\ Len(trace') = 2 =>
                /\ trace'[2].kind = "close"
                /\ owned[1].session # None
                /\ owned'[1].session = None
          /\ Len(trace') \in {1, 2}]_vars

\* a disconnect on a manager without a session returned success without a close
C15_Witness ==
    /\ pc = "idle"
    /\ call.op = "disconnect"
    /\ trace = <<DisconnectEvent(0)>>
    /\ result = Ok(0)
    /\ owned[1].session = None

\* C16: execute_batch issues the commands in list order, one after the other:
\* a command is issued only after every earlier one succeeded, and none after
\* the first failure.
C16_BatchInOrderStopsAtFailure ==
    call.op = "execute_batch" =>
        /\ Len(trace) <= Len(call.args)
        /\ \A j \in 1..Len(trace) :
              /\ trace[j].kind = "command"
              /\ trace[j].what = call.args[j]
              /\ j < Len(trace) => trace[j].how \in {"zero", "zero_stderr"}
        /\ (Len(trace) > 0 /\ trace[Len(trace)].how \notin {"zero", "zero_stderr"})
              => (pc = "idle" /\ result.status = "Err")

\* a batch of two different commands ended at the failure of the first
C16_Witness ==
    /\ pc = "idle"
    /\ call.op = "execute_batch"
    /\ Len(call.args) = 2
    /\ call.args[1] # call.args[2]
    /\ Len(trace) = 1
    /\ trace[1].how = "nonzero"
    /\ result.status = "Err"

\* C17: execute_batch returns either the outputs of all the commands, in
\* order, or an error that identifies the step that failed; never a partial
\* list.
C17_BatchAllOrNothing ==
    (pc = "idle" /\ call.op = "execute_batch") =>
        \/ /\ result.status = "Ok"
           /\ Len(result.out) = Len(call.args)
           /\ \A j \in 1..Len(call.args) : result.out[j] = <<"stdout", call.args[j]>>
        \/ /\ result.status = "Err"
           /\ result.out = <<>>
           /\ message_fields(result) \cap {"step", "command"} # {}

\* C18: an execute on a held session returns the captured stdout exactly when
\* the command completes in time with exit status 0, stderr empty or not; a
\* non-zero exit and a transport failure give CommandExecutionFailed, a
\* timeout gives TimeoutError.
C18_ExecuteResultByOutcome ==
    (pc = "idle" /\ call.op = "execute") =>
        /\ owned[1].session # None => Len(trace) = 1
        /\ Len(trace) = 1 =>
              /\ trace[1].kind = "command"
              /\ (result.status = "Ok") <=> (trace[1].how \in {"zero", "zero_stderr"})
              /\ result.status = "Ok" => result.out = <<<<"stdout", trace[1].what>>>>
              /\ trace[1].how \in {"nonzero", "transport"} =>
                    (result.status = "Err" /\ result.err = "CommandExecutionFailed")
              /\ trace[1].how = "timeout" =>
                    (result.status = "Err" /\ result.err = "TimeoutError")

\* a command that exited with status 0 and wrote to stderr returned its stdout
C18_Witness ==
    /\ pc = "idle"
    /\ call.op = "execute"
    /\ Len(trace) = 1
    /\ trace[1].how = "zero_stderr"
    /\ result.status = "Ok"
    /\ result.out = <<<<"stdout", "c2">>>>

\* C19: is_connected() never returns an error; it answers true only when a
\* session is held and the probe completes in time with exit status 0, and
\* false without a session (no probe is issued) and on every probe failure.
C19_IsConnectedNeverErrs ==
    (pc = "idle" /\ call.op = "is_connected") =>
        /\ result.status = "Ok"
        /\ result.value \in {0, 1}
        /\ (result.value = 1) <=>
              /\ owned[1].session # None
              /\ Len(trace) = 1
              /\ trace[1].kind = "probe"
              /\ trace[1].how = "zero"
        /\ owned[1].session = None => trace = <<>>
        /\ owned[1].session # None => Len(trace) = 1

\* the probe of a held session timed out and is_connected answered false
C19_Witness ==
    /\ pc = "idle"
    /\ call.op = "is_connected"
    /\ owned[1].session # None
    /\ Len(trace) = 1
    /\ trace[1].how = "timeout"
    /\ result = Ok(0)

\* C20: when attempt k is the first to succeed, connect() performs exactly k
\* attempts and k - 1 sleeps, returns success and leaves the manager with a
\* session and a recorded connected-since timestamp.
C20_FirstSuccessEndsConnect ==
    call.op = "connect" =>
        /\ \A j \in 1..Len(trace) :
              (trace[j].kind = "attempt" /\ trace[j].how = "ok") =>
                  /\ j = Len(trace)
                  /\ pc = "idle"
                  /\ result = Ok(0)
        /\ (pc = "idle" /\ result.status = "Ok") =>
              /\ Len(trace) >= 1
              /\ trace[Len(trace)].kind = "attempt"
              /\ trace[Len(trace)].how = "ok"
              /\ Cardinality({j \in 1..Len(trace) : trace[j].kind = "attempt"})
                    \in 1..owned[1].config.max_retries
              /\ Cardinality({j \in 1..Len(trace) : trace[j].kind = "sleep"})
                    = Cardinality({j \in 1..Len(trace) : trace[j].kind = "attempt"}) - 1
              /\ owned[1].session # None
              /\ owned[1].connected_at # None

\* the third attempt of a connect succeeded, after two sleeps
C20_Witness ==
    /\ pc = "idle"
    /\ call.op = "connect"
    /\ result.status = "Ok"
    /\ Cardinality({j \in 1..Len(trace) : trace[j].kind = "attempt"}) = 3
    /\ Cardinality({j \in 1..Len(trace) : trace[j].kind = "sleep"}) = 2

\* C21: an attempt that times out does not end connect(): unless it was the
\* last attempt allowed, a sleep follows it (and then a further attempt, whose
\* success makes the whole connect succeed).
C21_TimeoutIsRetried ==
    call.op = "connect" =>
        \A j \in 1..Len(trace) :
            (/\ trace[j].kind = "attempt"
             /\ trace[j].how = "timeout"
             /\ Cardinality({i \in 1..j : trace[i].kind = "attempt"})
                   < owned[1].config.max_retries) =>
                /\ j < Len(trace)
                /\ trace[j + 1].kind = "sleep"
                /\ (j + 1 < Len(trace) => trace[j + 2].kind = "attempt")
                /\ (j + 1 = Len(trace) => pc \in {"sleep", "connect"})

\* C22: remove_connection on a present key removes the entry and disconnects
\* it exactly once, returning the error of a failed disconnect; on an absent
\* key it returns success without a disconnect and leaves the pool as it was;
\* no other entry is touched.
C22_RemoveConnection ==
    (pc = "idle" /\ call.op = "remove_connection") =>
        IF call.key \in DOMAIN call.pre
        THEN /\ DOMAIN connections = (DOMAIN call.pre) \ {call.key}
             /\ \A k \in DOMAIN connections : connections[k] = call.pre[k]
             /\ Len(trace) \in {1, 2}
             /\ trace[1] = DisconnectEvent(call.key)
             /\ Len(trace) = 2 => (trace[2].kind = "close" /\ trace[2].key = call.key)
             /\ (call.pre[call.key].session # None) <=> (Len(trace) = 2)
             /\ IF Len(trace) = 2 /\ ~trace[2].ok
                THEN result.status = "Err" /\ result.err = "SessionFailed"
                ELSE result = Ok(0)
        ELSE /\ result = Ok(0)
             /\ trace = <<>>
             /\ connections = call.pre

\* an entry whose close failed was removed from a pool of two entries, and the
\* error was returned
C22_Witness ==
    /\ pc = "idle"
    /\ call.op = "remove_connection"
    /\ Cardinality(DOMAIN call.pre) = 2
    /\ Cardinality(DOMAIN connections) = 1
    /\ result.err = "SessionFailed"

\* C25: the entry handed back by a successful get_or_create_connection holds
\* a session, whether it was created by the call or already present, whatever
\* the owner did before with the entries handed back to it.
C25_ReturnedSessionIsLive ==
    (pc = "idle" /\ GetOrCreate /\ result.status = "Ok") =>
        /\ result.value \in DOMAIN connections
        /\ connections[result.value].session # None

\* C27: every manager that exists has a configuration with a host and with
\* max_retries >= 1; SSHManager::new with an empty host or max_retries = 0
\* fails without any remote operation, with an error whose kind is not the
\* ConnectionFailed of exhausted retries.
C27_InvalidConfigIsConfigurationError ==
    /\ owned # <<>> =>
          (owned[1].config.host # "" /\ owned[1].config.max_retries >= 1)
    /\ (call.op = "new" /\ ~call.valid) =>
          /\ result.status = "Err"
          /\ trace = <<>>
          /\ result.err # "ConnectionFailed"

\* C30: when connect() has used up its attempts, the ConnectionFailed it
\* returns carries the error of the last attempt and the number of attempts
\* made, max_retries.
C30_ExhaustedCarriesLastError ==
    (pc = "idle" /\ call.op = "connect" /\ result.status = "Err") =>
        /\ result.err = "ConnectionFailed"
        /\ {"attempts", "cause"} \subseteq message_fields(result)
        /\ result.attempts = owned[1].config.max_retries
        /\ result.attempts =
              Cardinality({j \in 1..Len(trace) : trace[j].kind = "attempt"})
        /\ trace[Len(trace)].kind = "attempt"
        /\ \/ trace[Len(trace)].how = "io" /\ result.cause = "IO"
           \/ trace[Len(trace)].how = "timeout" /\ result.cause = "TimeoutError"
           \/ trace[Len(trace)].how = "refused" /\ result.cause = "ConnectionFailed"

\* a connect gave up after a refused and then a timed-out attempt, and
\* reported the timeout
C30_Witness ==
    /\ pc = "idle"
    /\ call.op = "connect"
    /\ result.status = "Err"
    /\ Len(trace) = 3
    /\ trace[1].how = "refused"
    /\ trace[3].how = "timeout"
    /\ result.cause = "TimeoutError"
    /\ result.attempts = 2

\* C23: a manager can be connected again after any disconnect: every connect
\* starts with attempt 0 and the initial backoff whatever happened before, a
\* connect that succeeds leaves the manager with a session whatever state the
\* disconnect left it in, and an execute that follows issues its command.
C23_ReconnectAfterDisconnect ==
    [][/\ (pc = "idle" /\ pc' = "connect") =>
             /\ attempt' = 0
             /\ backoff' = owned[1].config.initial_backoff
             /\ trace' = <<>>
       /\ (call'.op = "connect" /\ Len(trace') >= 2) =>
             trace'[2].base = owned'[1].config.initial_backoff
       /\ (call'.op = "connect" /\ pc' = "idle" /\ result'.status = "Ok") =>
             /\ owned'[1].session # None
             /\ owned'[1].connected_at # None
       /\ (call.op = "connect" /\ pc = "idle" /\ result.status = "Ok"
             /\ call'.op = "execute") =>
             /\ Len(trace') = 1
             /\ trace'[1].kind = "command"
             /\ result'.err # "ClientNotInitialized"]_vars

\* after a disconnect whose close failed (no session, the timestamp still
\* there) a connect succeeded at its second attempt
C23_Witness ==
    /\ pc = "idle"
    /\ call.op = "connect"
    /\ result.status = "Ok"
    /\ call.args[1].session = None
    /\ call.args[1].connected_at # None
    /\ Len(trace) = 3
    /\ owned[1].session # None

\* C24: connection_info() returns a snapshot (host, port and user of the
\* configuration, and the connected-since time) if and only if the manager
\* holds a session, and nothing otherwise.
C24_ConnectionInfoIffConnected ==
    (pc = "idle" /\ call.op = "connection_info") =>
        /\ result.status = "Ok"
        /\ trace = <<>>
        /\ IF owned[1].session # None
           THEN result.out = <<[host |-> owned[1].config.host,
                                port |-> owned[1].config.port,
                                user |-> owned[1].config.user,
                                connected_at |-> "Some"]>>
           ELSE result.out = <<>>

\* connection_info returned nothing on a manager whose close had failed (the
\* timestamp is still there)
C24_Witness ==
    /\ pc = "idle"
    /\ call.op = "connection_info"
    /\ owned[1].session = None
    /\ owned[1].connected_at # None
    /\ result.out = <<>>

\* C26: every remote operation (connect attempt, command, probe, close) is
\* bounded by a timeout: none of them waits forever, so the operation that
\* issued it returns.
C26_RemoteOperationsBounded ==
    /\ pc # "hung"
    /\ \A j \in 1..Len(trace) : trace[j].how # "hang"

\* C28: a manager owns at most one live session at any time, and every
\* session it established is either the one it holds or one that was closed
\* or dropped, also when connect() is called on a manager that holds a session.
C28_AtMostOneSession ==
    owned # <<>> =>
        /\ owned[1].open \in {0, 1}
        /\ (owned[1].open = 1) <=> (owned[1].session # None)

\* a connect succeeded on a manager that held a session when it was called
C28_Witness ==
    /\ pc = "idle"
    /\ call.op = "connect"
    /\ result.status = "Ok"
    /\ call.args[1].session # None
    /\ owned[1].open = 1

C31_CloseAllSucceedsAndEmpties ==
    [][/\ (pc' = "idle" /\ call'.op = "close_all") =>
             /\ result' = Ok(0)
             /\ Cardinality(DOMAIN connections') = 0
             /\ Cardinality(DOMAIN drain') = 0
       /\ (pc = "idle" /\ call.op = "close_all" /\ max_connections >= 1
             /\ call'.op = "get_or_create_connection") =>
             ~(pc' = "idle" /\ result'.msg = "MaxConnectionsReached")]_vars

\* close_all returned success from a pool of two entries whose closes both
\* failed
C31_Witness ==
    /\ pc = "idle"
    /\ call.op = "close_all"
    /\ Cardinality(DOMAIN call.pre) = 2
    /\ Len(trace) = 4
    /\ ~trace[2].ok
    /\ ~trace[4].ok
    /\ result.status = "Ok"
    /\ Cardinality(DOMAIN connections) = 0

\* C32: for every validated configuration connect() ends by returning
\* success or an SSHError: it never panics while computing the jitter or the
\* next backoff.
C32_ConnectNeverPanics ==
    /\ pc # "panicked"
    /\ (call.op = "connect" /\ pc = "idle") => result.status \in {"Ok", "Err"}

\* C33: between operations, a manager that holds a session has its
\* connected-since timestamp recorded.
C33_SessionImpliesTimestamp ==
    (pc = "idle" /\ owned # <<>> /\ owned[1].session # None) =>
        owned[1].connected_at # None

\* the first connect of a new manager succeeded: session and timestamp are
\* both there
C33_Witness ==
    /\ pc = "idle"
    /\ call.op = "connect"
    /\ result.status = "Ok"
    /\ call.args[1].session = None
    /\ call.args[1].connected_at = None
    /\ owned[1].session # None
    /\ owned[1].connected_at # None

\* C34: a connect() that returns an error leaves the manager exactly as it
\* was when connect was called: without a session and timestamp, or with the
\* session and timestamp it held.
C34_FailedConnectChangesNothing ==
    (pc = "idle" /\ call.op = "connect" /\ result.status = "Err") =>
        /\ owned[1].session = call.args[1].session
        /\ owned[1].connected_at = call.args[1].connected_at
        /\ owned[1] = call.args[1]

\* a connect failed after a retry on a manager that held a session, which it
\* still holds
C34_Witness ==
    /\ pc = "idle"
    /\ call.op = "connect"
    /\ result.status = "Err"
    /\ Len(trace) = 3
    /\ call.args[1].session # None
    /\ owned[1].session # None
    /\ owned[1].connected_at # None

\* C35: execute, execute_batch and is_connected leave the manager as it is,
\* whatever their outcome; a connection_info that follows one of them on a
\* manager holding a session still returns the snapshot.
C35_ExecuteChangesNothing ==
    [][/\ call'.op \in {"execute", "execute_batch", "is_connected"} =>
             owned' = owned
       /\ (pc = "idle" /\ call.op \in {"execute", "execute_batch", "is_connected"}
             /\ owned[1].session # None /\ call'.op = "connection_info") =>
             Len(result'.out) = 1]_vars

\* a command timed out on a manager that still holds its session and
\* timestamp
C35_Witness ==
    /\ pc = "idle"
    /\ call.op = "execute"
    /\ Len(trace) = 1
    /\ trace[1].how = "timeout"
    /\ result.err = "TimeoutError"
    /\ owned[1].session # None
    /\ owned[1].connected_at # None

\* C36: remove_connection takes the entry out of the pool even when its
\* disconnect fails and the error is returned: the key is absent afterwards,
\* its slot is free, and a second remove_connection of the key returns success
\* and does nothing.
C36_RemovedEvenWhenDisconnectFails ==
    [][/\ (pc' = "idle" /\ call'.op = "remove_connection") =>
             /\ call'.key \notin DOMAIN connections'
             /\ call'.key \in DOMAIN call'.pre =>
                   Cardinality(DOMAIN connections') =
                       Cardinality(DOMAIN call'.pre) - 1
       /\ (pc = "idle" /\ call.op = "remove_connection"
             /\ call'.op = "remove_connection" /\ call'.key = call.key) =>
             /\ pc' = "idle"
             /\ result' = Ok(0)
             /\ trace' = <<>>
             /\ connections' = connections]_vars

\* the only entry of a pool of capacity one was removed although its close
\* failed
C36_Witness ==
    /\ pc = "idle"
    /\ call.op = "remove_connection"
    /\ max_connections = 1
    /\ Cardinality(DOMAIN call.pre) = 1
    /\ result.err = "SessionFailed"
    /\ Cardinality(DOMAIN connections) = 0

\* C37: execute_batch with an empty list returns an empty list and issues no
\* command, also on a manager without a session; with a non-empty list on a
\* manager without a session it fails with ClientNotInitialized before any
\* command is issued.
C37_EmptyBatchSucceeds ==
    (pc = "idle" /\ call.op = "execute_batch") =>
        /\ Len(call.args) = 0 =>
              /\ result.status = "Ok"
              /\ result.out = <<>>
              /\ trace = <<>>
        /\ (Len(call.args) > 0 /\ owned[1].session = None) =>
              /\ result.status = "Err"
              /\ result.err = "ClientNotInitialized"
              /\ trace = <<>>

\* an empty batch returned success on a manager without a session
C37_Witness ==
    /\ pc = "idle"
    /\ call.op = "execute_batch"
    /\ Len(call.args) = 0
    /\ owned[1].session = None
    /\ result.status = "Ok"

====
